---- MODULE Spec2Model ----
(***************************************************************************)
(* A model of the STAR-market daily-bar tools:                             *)
(*   kcb_daily.py / kcb_daily_incremental.py   the per-stock CSV store     *)
(*   kcb_signal_ma120.py                       MA cross-down/cross-up scan *)
(*   kcb_signal_ma20_ma30.py                   band-adherent uptrend scan  *)
(*   kcb_signal_new_high_20d.py                rolling new-high scan       *)
(*                                                                         *)
(* Conventions.                                                            *)
(*  - Optional[T] is a sequence of length <= 1: None is <<>>, a value v is *)
(*    <<v>>.                                                               *)
(*  - A CSV file is [exists, lines]; a line is the sequence of its cells   *)
(*    (the csv module's quoting round-trips every cell, so a cell is the   *)
(*    string itself).                                                      *)
(*  - A kline "d,c" is held as the tuple raw.split(",") produces.          *)
(*  - TLC cannot index into a string, so Chars gives the characters of     *)
(*    each string a date parser may see.                                   *)
(*  - Prices are integers and a moving average is the exact rational       *)
(*    [num, den]; float rounding is not modelled.                          *)
(***************************************************************************)
EXTENDS Integers, Sequences, FiniteSets, TLC

VARIABLES
    file,      \* the per-stock CSV data/daily/<code>.csv
    pc,        \* where the merge loop body stands: "idle", "fetching", "done"
    cur,       \* the locals of the current pass of the merge loop body
    series,    \* the rows a detector works on (load_series' result)
    cfg,       \* the detector's arguments
    ma,        \* compute_ma's locals while it runs
    signal,    \* the last detector call and what it returned
    batch      \* a run over several instruments: its store and loop position

vars == <<file, pc, cur, series, cfg, ma, signal, batch>>

storeVars == <<file, pc, cur>>

signalVars == <<series, cfg, ma, signal>>

\* ------------------------------------------------------------------ bounds

\* Most data rows a per-stock file holds (merges that would exceed it are cut off).
MaxRows == 2

\* Most klines in one fetch result.
MaxFetch == 2

\* Longest series given to compute_ma and to the band-trend detector.
MaxLen == 4

\* Longest series given to the crossover detector.
MaxCrossLen == 6

\* Longest series given to the new-high detector.
MaxHighLen == 5

\* Largest moving-average window.
MaxWindow == 3

\* ----------------------------------------------------------------- helpers

None == <<>>

Some(v) == <<v>>

Max(a, b) == IF a >= b THEN a ELSE b

SeqUpTo(S, n) == UNION {[1..k -> S] : k \in 0..n}

IsPrefix(s, t) == Len(s) <= Len(t) /\ SubSeq(t, 1, Len(s)) = s

Range(s) == {s[i] : i \in DOMAIN s}

\* ------------------------------------------------------------ date strings

Code == "688001"

DateA == "2024-01-02"

DateASlash == "2024/01/02"

DateB == "2024-01-03"

DateBad == "2024-1-4"

DateC == "2024-01-04"

DateD == "2024-01-05"

\* a date cell with a blank in front
DatePadded == " 2024-01-03"

Chars(s) ==
    CASE s = DateA      -> <<"2","0","2","4","-","0","1","-","0","2">>
      [] s = DateASlash -> <<"2","0","2","4","/","0","1","/","0","2">>
      [] s = DateB      -> <<"2","0","2","4","-","0","1","-","0","3">>
      [] s = DateBad    -> <<"2","0","2","4","-","1","-","4">>
      [] s = DateC      -> <<"2","0","2","4","-","0","1","-","0","4">>
      [] s = DateD      -> <<"2","0","2","4","-","0","1","-","0","5">>
      [] s = DatePadded -> <<" ","2","0","2","4","-","0","1","-","0","3">>
      [] s = "10"       -> <<"1","0">>
      [] s = "11"       -> <<"1","1">>
      [] s = "1"        -> <<"1">>
      [] s = "2"        -> <<"2">>
      [] s = "3"        -> <<"3">>
      [] s = ""         -> <<>>
      [] OTHER          -> <<"?">>

Digits == <<"0","1","2","3","4","5","6","7","8","9">>

isdigit(cs) == cs # <<>> /\ \A i \in DOMAIN cs : cs[i] \in Range(Digits)

DigitVal(c) == (CHOOSE i \in DOMAIN Digits : Digits[i] = c) - 1

RECURSIVE int(_)
int(cs) == IF cs = <<>> THEN 0
           ELSE 10 * int(SubSeq(cs, 1, Len(cs) - 1)) + DigitVal(cs[Len(cs)])

RECURSIVE strip(_)
strip(cs) ==
    IF cs = <<>> THEN cs
    ELSE IF Head(cs) = " " THEN strip(Tail(cs))
    ELSE IF cs[Len(cs)] = " " THEN strip(SubSeq(cs, 1, Len(cs) - 1))
    ELSE cs

replace(cs, old) == SelectSeq(cs, LAMBDA c : c # old)

parse_date_int(value) ==
    LET cleaned == replace(replace(strip(Chars(value)), "-"), "/")
    IN  IF Len(cleaned) # 8 \/ ~isdigit(cleaned) THEN None
        ELSE Some(int(cleaned))

\* ------------------------------------------------------------ kline fields

FIELDS2_NAME_MAP(field) ==
    CASE field = "f51" -> "date"
      [] field = "f52" -> "open"
      [] field = "f53" -> "close"
      [] field = "f54" -> "high"
      [] field = "f55" -> "low"
      [] field = "f56" -> "volume"
      [] field = "f57" -> "amount"
      [] field = "f58" -> "amplitude"
      [] field = "f59" -> "pct_chg"
      [] field = "f60" -> "chg"
      [] field = "f61" -> "turnover"
      [] OTHER         -> field

\* args.fields2 after parse_fields: the date and close columns of DEFAULT_FIELDS2.
fields2_list == <<"f51", "f53">>

build_kline_field_names(fields2) ==
    [i \in DOMAIN fields2 |-> FIELDS2_NAME_MAP(fields2[i])]

kline_fields == build_kline_field_names(fields2_list)

date_field == IF "date" \in Range(kline_fields) THEN Some("date") ELSE None

\* --------------------------------------------------------------- csv files

AbsentFile == [exists |-> FALSE, lines |-> <<>>]

\* csv.DictReader's row.get(field): the cell under the (last) header column of
\* that name; None when the header has no such column or the line is too short.
DictGet(header, line, field) ==
    LET at == {i \in DOMAIN header : header[i] = field}
    IN  IF at = {} THEN None
        ELSE LET i == CHOOSE j \in at : \A k \in at : k <= j
             IN  IF i \in DOMAIN line THEN Some(line[i]) ELSE None

read_csv_header(f) ==
    IF ~f.exists THEN None
    ELSE IF f.lines = <<>> THEN None
    ELSE Some(f.lines[1])

RECURSIVE ScanDates(_, _, _, _, _)
ScanDates(header, lines, field, dates, latest) ==
    IF lines = <<>> THEN [dates |-> dates, latest |-> latest]
    ELSE LET value == DictGet(header, Head(lines), field)
             parsed == IF value = None THEN None ELSE parse_date_int(value[1])
             keep   == value # None /\ value[1] # ""
         IN  ScanDates(header, Tail(lines), field,
                       IF keep THEN dates \cup {value[1]} ELSE dates,
                       IF keep /\ parsed # None
                          /\ (latest = None \/ parsed[1] > latest[1])
                       THEN parsed ELSE latest)

read_existing_dates(f, field) ==
    IF ~f.exists \/ f.lines = <<>> THEN [dates |-> {}, latest |-> None]
    ELSE ScanDates(f.lines[1], Tail(f.lines), field, {}, None)

\* writer.writerow({key: row.get(key, "") for key in header})
writerow(header, row) ==
    [i \in DOMAIN header |-> IF header[i] \in DOMAIN row THEN row[header[i]] ELSE ""]

write_lines(header, rows) == [i \in DOMAIN rows |-> writerow(header, rows[i])]

\* write_csv_rows opening the file with mode "w" in either mode.
write_csv_rows_truncating(f, header, rows, overwrite) ==
    IF rows = <<>> THEN f
    ELSE [exists |-> TRUE, lines |-> <<header>> \o write_lines(header, rows)]

\* write_csv_rows writing the header line on every write.
write_csv_rows_header_always(f, header, rows, overwrite) ==
    IF rows = <<>> THEN f
    ELSE IF overwrite \/ ~f.exists
         THEN [exists |-> TRUE, lines |-> <<header>> \o write_lines(header, rows)]
         ELSE [exists |-> TRUE,
               lines |-> f.lines \o <<header>> \o write_lines(header, rows)]

write_csv_rows(f, header, rows, overwrite) ==
    IF rows = <<>> THEN f
    ELSE IF overwrite \/ ~f.exists
         THEN [exists |-> TRUE, lines |-> <<header>> \o write_lines(header, rows)]
         ELSE [exists |-> TRUE, lines |-> f.lines \o write_lines(header, rows)]

\* ------------------------------------------------------------- fetch result

\* fetch_kline_data's result: empty stands for None and {} (both falsy); meta
\* holds the payload's keys other than "klines", in dict order, with values.
NoData == [empty |-> TRUE, meta |-> <<>>, klines |-> <<>>]

Klines ==
    { <<DateA, "10">>, <<DateA, "11">>, <<DateASlash, "10">>,
      <<DateB, "10">>, <<DateBad, "10">> }

Metas == { <<>>, << <<"code", Code>>, <<"decimal", "2">> >> }

FetchResults ==
    {NoData} \cup
    {[empty |-> FALSE, meta |-> m, klines |-> ks] :
        m \in Metas, ks \in SeqUpTo(Klines, MaxFetch)}

base_meta_keys == <<"code", "name", "market", "secid">>

\* items built from --codes: {"code": code, "name": "", "market": "1", "secid": "1.<code>"}
base_meta(code) ==
    [k \in Range(base_meta_keys) |->
        CASE k = "code"   -> code
          [] k = "name"   -> ""
          [] k = "market" -> "1"
          [] k = "secid"  -> "1." \o code]

meta_keys(data) ==
    [i \in DOMAIN data.meta |-> data.meta[i][1]]

MetaValue(data, key) ==
    LET i == CHOOSE j \in DOMAIN data.meta : data.meta[j][1] = key
    IN  data.meta[i][2]

build_row(raw, data, meta, fields) ==
    LET extra == {k \in Range(meta_keys(data)) : k \notin DOMAIN meta}
        names == DOMAIN meta \cup Range(fields) \cup {"meta_" \o k : k \in extra}
    IN  [n \in names |->
            IF \E k \in extra : n = "meta_" \o k
            THEN MetaValue(data, CHOOSE k \in extra : n = "meta_" \o k)
            ELSE IF n \in Range(fields)
            THEN LET idx == CHOOSE i \in DOMAIN fields :
                                n = fields[i] /\ \A j \in DOMAIN fields :
                                                    fields[j] = n => j <= i
                 IN  IF idx <= Len(raw) THEN raw[idx] ELSE ""
            ELSE meta[n]]

build_rows(data, meta, fields) ==
    [i \in DOMAIN data.klines |-> build_row(data.klines[i], data, meta, fields)]

\* build_header with the metadata fields put before the price fields.
build_header_meta_first(meta, fields, data) ==
    base_meta_keys \o
    [i \in DOMAIN SelectSeq(meta_keys(data), LAMBDA k : k \notin DOMAIN meta) |->
        "meta_" \o SelectSeq(meta_keys(data), LAMBDA k : k \notin DOMAIN meta)[i]]
    \o fields

\* computed_header in kcb_daily.main, build_header in kcb_daily_incremental
build_header(meta, fields, data) ==
    base_meta_keys \o fields \o
    [i \in DOMAIN SelectSeq(meta_keys(data), LAMBDA k : k \notin DOMAIN meta) |->
        "meta_" \o SelectSeq(meta_keys(data), LAMBDA k : k \notin DOMAIN meta)[i]]

\* ------------------------------------------------------------ merge drivers

\* datetime.date.today() of the run.
Today == [year |-> 2024, month |-> 1, day |-> 4]

\* today - timedelta(days = n), for n that stays inside the month.
DateMinus(d, n) == [d EXCEPT !.day = @ - n]

\* int(start.strftime("%Y%m%d"))
strftime_int(d) == d.year * 10000 + d.month * 100 + d.day

compute_recent_beg(recent_days) ==
    IF recent_days = None \/ recent_days[1] = 0 \/ recent_days[1] <= 0 THEN None
    ELSE Some(strftime_int(DateMinus(Today, recent_days[1] - 1)))

\* the command line of one run: --overwrite, --beg, --recent-days
DEFAULT_BEG == 0

BegChoices == {DEFAULT_BEG, 20240103}

RecentDaysChoices == {None, Some(0), Some(3)}

DailyArgs ==
    [overwrite : BOOLEAN, beg : BegChoices, recent_days : RecentDaysChoices]

\* kcb_daily_incremental has no --recent-days
IncrementalArgs ==
    [overwrite : BOOLEAN, beg : BegChoices, recent_days : {None}]

\* runs that leave --beg and --recent-days at their defaults
DefaultRange(Args) ==
    {a \in Args : a.beg = DEFAULT_BEG /\ a.recent_days = None}

\* fetch results of at most one kline and no payload metadata
SingleFetch ==
    {d \in FetchResults : Len(d.klines) <= 1 /\ d.meta = <<>>}

\* filter_rows with the filter left out: every fetched row is kept.
filter_rows_unfiltered(rows, field, dates) == rows

\* rows = [row for row in rows if row.get(date_field) not in existing_dates]
filter_rows(rows, field, dates) ==
    SelectSeq(rows, LAMBDA row :
        IF field \in DOMAIN row THEN row[field] \notin dates ELSE TRUE)

\* header_or preferring the computed header.
header_or_computed(existing_header, computed_header) == computed_header

\* existing_header or computed_header
header_or(existing_header, computed_header) ==
    IF existing_header # None /\ existing_header[1] # <<>>
    THEN existing_header[1] ELSE computed_header

\* missing = set(computed_header) - set(existing_header), when existing_header
missing_fields(existing_header, computed_header) ==
    IF existing_header # None /\ existing_header[1] # <<>>
    THEN Range(computed_header) \ Range(existing_header[1]) ELSE {}

\* daily_begin reading the persisted dates in overwrite mode too.
daily_begin_always_reading(f, args) ==
    LET existing == read_existing_dates(f, date_field[1])
        beg1 ==
            IF existing.latest # None
            THEN Max(args.beg, existing.latest[1]) ELSE args.beg
        recent_beg == compute_recent_beg(args.recent_days)
    IN  [existing_dates  |-> existing.dates,
         latest_date     |-> existing.latest,
         existing_header |-> None,
         effective_beg   |->
            IF recent_beg # None THEN Max(beg1, recent_beg[1]) ELSE beg1]

\* kcb_daily.main, the loop body up to the fetch: the begin date of the request.
daily_begin(f, args) ==
    LET existing ==
            IF date_field # None /\ ~args.overwrite
            THEN read_existing_dates(f, date_field[1])
            ELSE [dates |-> {}, latest |-> None]
        beg1 ==
            IF existing.latest # None
            THEN Max(args.beg, existing.latest[1]) ELSE args.beg
        recent_beg == compute_recent_beg(args.recent_days)
    IN  [existing_dates  |-> existing.dates,
         latest_date     |-> existing.latest,
         existing_header |-> None,
         effective_beg   |->
            IF recent_beg # None THEN Max(beg1, recent_beg[1]) ELSE beg1]

load_existing_state(f, field) ==
    LET header == read_csv_header(f)
    IN  IF field = None \/ header = None \/ header[1] = <<>>
           \/ field[1] \notin Range(header[1])
        THEN [dates |-> {}, latest |-> None, header |-> header]
        ELSE [dates  |-> read_existing_dates(f, field[1]).dates,
              latest |-> read_existing_dates(f, field[1]).latest,
              header |-> header]

\* kcb_daily_incremental.main, the loop body up to the fetch.
incremental_begin(f, args) ==
    LET existing ==
            IF ~args.overwrite THEN load_existing_state(f, date_field)
            ELSE [dates |-> {}, latest |-> None, header |-> None]
    IN  [existing_dates  |-> existing.dates,
         latest_date     |-> existing.latest,
         existing_header |-> existing.header,
         effective_beg   |->
            IF existing.latest # None
            THEN Max(args.beg, existing.latest[1]) ELSE args.beg]

\* What the rest of the loop body leaves behind.
Pass(f, msg, warning, header, nrows) ==
    [file |-> f, msg |-> msg, warning |-> warning, header |-> header,
     nrows |-> nrows]

\* The loop body from the fetch's return on, given the header the driver holds.
finish_pass(f, code, overwrite, existing_dates, existing_header, data) ==
    LET meta == base_meta(code)
        rows == build_rows(data, meta, kline_fields)
        computed_header == build_header(meta, kline_fields, data)
        header == header_or(existing_header, computed_header)
        kept ==
            IF date_field # None /\ ~overwrite
            THEN filter_rows(rows, date_field[1], existing_dates) ELSE rows
    IN  IF data.empty
        THEN Pass(f, "skip: empty response", {}, None, 0)
        ELSE IF rows = <<>>
        THEN Pass(f, "skip: no kline rows", {}, None, 0)
        ELSE Pass(write_csv_rows(f, header, kept, overwrite), "",
                  missing_fields(existing_header, computed_header),
                  Some(header), Len(kept))

\* kcb_daily.main reads the header after the fetch, in either mode.
daily_finish(f, code, overwrite, existing_dates, data) ==
    finish_pass(f, code, overwrite, existing_dates, read_csv_header(f), data)

\* kcb_daily_incremental.main keeps the header load_existing_state returned.
incremental_finish(f, code, overwrite, existing_dates, existing_header, data) ==
    finish_pass(f, code, overwrite, existing_dates, existing_header, data)

NoPass ==
    [driver |-> "none", overwrite |-> FALSE, beg |-> 0, recent_days |-> None,
     existing_dates |-> {}, latest_date |-> None, existing_header |-> None,
     effective_beg |-> 0, prev |-> AbsentFile, data |-> NoData, msg |-> "",
     warning |-> {}, header |-> None, nrows |-> 0]

Begun(driver, args, b) ==
    [NoPass EXCEPT !.driver = driver, !.overwrite = args.overwrite,
                   !.beg = args.beg, !.recent_days = args.recent_days,
                   !.existing_dates = b.existing_dates,
                   !.latest_date = b.latest_date,
                   !.existing_header = b.existing_header,
                   !.effective_beg = b.effective_beg]

Finished(c, f, data, p) ==
    [c EXCEPT !.prev = f, !.data = data, !.msg = p.msg, !.warning = p.warning,
              !.header = p.header, !.nrows = p.nrows]

InBounds(f) == Len(f.lines) <= MaxRows + 1

\* python kcb_daily.py --codes <Code> [--overwrite] [--beg B] [--recent-days N]
BeginDaily(Args) ==
    /\ pc = "idle"
    /\ \E args \in Args :
          cur' = Begun("daily", args, daily_begin(file, args))
    /\ pc' = "fetching"
    /\ UNCHANGED <<file, signalVars, batch>>

\* python kcb_daily_incremental.py --codes <Code> [--overwrite] [--beg B]
BeginIncremental(Args) ==
    /\ pc = "idle"
    /\ \E args \in Args :
          cur' = Begun("incremental", args, incremental_begin(file, args))
    /\ pc' = "fetching"
    /\ UNCHANGED <<file, signalVars, batch>>

\* fetch_kline_data returns `data`; kcb_daily.main runs the rest of the body.
FinishDaily(Fetches) ==
    /\ pc = "fetching"
    /\ cur.driver = "daily"
    /\ \E data \in Fetches :
          LET p == daily_finish(file, Code, cur.overwrite, cur.existing_dates,
                                data)
          IN  /\ InBounds(p.file)
              /\ file' = p.file
              /\ cur' = Finished(cur, file, data, p)
    /\ pc' = "done"
    /\ UNCHANGED <<signalVars, batch>>

\* fetch_kline_data returns `data`; kcb_daily_incremental.main runs the rest.
FinishIncremental(Fetches) ==
    /\ pc = "fetching"
    /\ cur.driver = "incremental"
    /\ \E data \in Fetches :
          LET p == incremental_finish(file, Code, cur.overwrite,
                                      cur.existing_dates, cur.existing_header,
                                      data)
          IN  /\ InBounds(p.file)
              /\ file' = p.file
              /\ cur' = Finished(cur, file, data, p)
    /\ pc' = "done"
    /\ UNCHANGED <<signalVars, batch>>

\* The loop has no further item: main returns 0.
Return ==
    /\ pc = "done"
    /\ pc' = "idle"
    /\ cur' = NoPass
    /\ UNCHANGED <<file, signalVars, batch>>

IdleSignal ==
    /\ series = <<>>
    /\ cfg = <<>>
    /\ ma = <<>>
    /\ signal = <<>>

\* No run over several instruments is under way.
NoBatch == [tool |-> "none"]

Init ==
    /\ file = AbsentFile
    /\ pc = "idle"
    /\ cur = NoPass
    /\ IdleSignal
    /\ batch = NoBatch

\* The store under every fetch result, with the default request range.
Next ==
    \/ BeginDaily(DefaultRange(DailyArgs))
    \/ BeginIncremental(DefaultRange(IncrementalArgs))
    \/ FinishDaily(FetchResults)
    \/ FinishIncremental(FetchResults)
    \/ Return

Spec == Init /\ [][Next]_vars

\* The store under every request range, one observation per fetch.
NextBoundary ==
    \/ BeginDaily(DailyArgs)
    \/ BeginIncremental(IncrementalArgs)
    \/ FinishDaily(SingleFetch)
    \/ FinishIncremental(SingleFetch)
    \/ Return

SpecBoundary == Init /\ [][NextBoundary]_vars

\* ================================================================ the store

\* The calendar day a date text names, as YYYYMMDD; None when it names none.
DayOf(text) ==
    CASE text = DateA      -> Some(20240102)
      [] text = DateASlash -> Some(20240102)
      [] text = DateB      -> Some(20240103)
      [] OTHER             -> None

HeaderOf(f) == f.lines[1]

DataRows(f) == IF f.lines = <<>> THEN <<>> ELSE Tail(f.lines)

Column(header, name) == CHOOSE i \in DOMAIN header : header[i] = name

\* The date texts of a file's data rows, in file order.
DateCells(f) ==
    [i \in DOMAIN DataRows(f) |-> DataRows(f)[i][Column(HeaderOf(f), "date")]]

CloseCells(f) ==
    [i \in DOMAIN DataRows(f) |-> DataRows(f)[i][Column(HeaderOf(f), "close")]]

\* A pass that reached write_csv_rows (it was not skipped for want of data).
Merged == pc = "done" /\ cur.msg = ""

\* The file after one more non-overwrite pass of `driver` on `f` with `data`.
SecondPass(driver, f, data) ==
    LET args == [overwrite |-> FALSE, beg |-> DEFAULT_BEG, recent_days |-> None]
    IN  IF driver = "daily"
        THEN daily_finish(f, Code, FALSE,
                          daily_begin(f, args).existing_dates, data)
        ELSE incremental_finish(f, Code, FALSE,
                                incremental_begin(f, args).existing_dates,
                                incremental_begin(f, args).existing_header,
                                data)

\* C1: once a non-overwrite pass with fetch result F has run on a non-empty
\* persisted series, a second non-overwrite pass (of either driver) with the
\* same F keeps zero rows and leaves the file as the first pass left it.
C1_MergeIdempotent ==
    (pc = "done" /\ ~cur.overwrite /\ DataRows(cur.prev) # <<>>) =>
        \A driver \in {"daily", "incremental"} :
            /\ SecondPass(driver, file, cur.data).nrows = 0
            /\ SecondPass(driver, file, cur.data).file = file

\* C1's case: the first pass appended rows to a non-empty series.
C1_Witness ==
    /\ pc = "done"
    /\ ~cur.overwrite
    /\ DataRows(cur.prev) # <<>>
    /\ cur.nrows > 0
    /\ Len(file.lines) > Len(cur.prev.lines)

\* C2: after any successful merge the data rows are strictly increasing by
\* date, whatever order the fetched observations arrived in.
C2_StrictlyIncreasing ==
    (Merged /\ file.exists) =>
        \A i, j \in DOMAIN DateCells(file) :
            i < j =>
                /\ DayOf(DateCells(file)[i]) # None
                /\ DayOf(DateCells(file)[j]) # None
                /\ DayOf(DateCells(file)[i])[1] < DayOf(DateCells(file)[j])[1]

\* The fetched klines a non-overwrite pass must keep: those whose date text is
\* not the date text of a row persisted before the pass.
NewKlines(prev, data) ==
    SelectSeq(data.klines, LAMBDA k : k[1] \notin Range(DateCells(prev)))

Appended(prev, f) ==
    IF prev.exists THEN SubSeq(f.lines, Len(prev.lines) + 1, Len(f.lines))
    ELSE DataRows(f)

\* C3: a non-overwrite merge only appends: the previous content is a prefix of
\* the new content; no appended row carries a date text persisted before; and
\* the appended rows are exactly the fetched observations with other dates, in
\* fetch order and with their fetched values.
C3_AppendOnly ==
    (Merged /\ ~cur.overwrite) =>
        /\ IsPrefix(cur.prev.lines, file.lines)
        /\ LET new   == Appended(cur.prev, file)
               want  == NewKlines(cur.prev, cur.data)
               date  == Column(HeaderOf(file), "date")
               close == Column(HeaderOf(file), "close")
           IN  /\ Len(new) = Len(want)
               /\ \A i \in DOMAIN new :
                    /\ new[i][date] = want[i][1]
                    /\ new[i][close] = want[i][2]
                    /\ new[i][date] \notin Range(DateCells(cur.prev))

\* C3's case: the fetch held a persisted date with another close (dropped, the
\* stored row kept) beside an observation that was appended.
C3_Witness ==
    /\ Merged
    /\ ~cur.overwrite
    /\ cur.nrows > 0
    /\ \E k \in Range(cur.data.klines), i \in DOMAIN DataRows(cur.prev) :
          /\ DateCells(cur.prev)[i] = k[1]
          /\ CloseCells(cur.prev)[i] # k[2]
          /\ DateCells(file)[i] = k[1]
          /\ CloseCells(file)[i] = CloseCells(cur.prev)[i]

\* Two date texts name the same date: the same text, or the same day.
SameDate(a, b) == a = b \/ (DayOf(a) # None /\ DayOf(a) = DayOf(b))

\* C4: no two rows of the persisted series have the same date.
C4_DatesUnique ==
    file.exists =>
        \A i, j \in DOMAIN DateCells(file) :
            i # j => ~SameDate(DateCells(file)[i], DateCells(file)[j])

\* The latest day among the persisted rows whose date names a day.
LatestDay(f) ==
    LET days == {DayOf(DateCells(f)[i])[1] :
                    i \in {j \in DOMAIN DateCells(f) :
                              DayOf(DateCells(f)[j]) # None}}
    IN  IF ~f.exists \/ days = {} THEN None
        ELSE Some(CHOOSE d \in days : \A e \in days : e <= d)

\* today - (n - 1) days as YYYYMMDD (the runs modelled stay inside the month).
RecencyFloor(n) == Today.year * 10000 + Today.month * 100 + Today.day - (n - 1)

\* The terms of the boundary of a request.
BoundaryTerms(c, f) ==
    {c.beg}
    \cup (IF ~c.overwrite /\ LatestDay(f) # None THEN {LatestDay(f)[1]} ELSE {})
    \cup (IF c.recent_days # None /\ c.recent_days[1] > 0
          THEN {RecencyFloor(c.recent_days[1])} ELSE {})

\* C5: the begin date passed to the fetch is the greatest of the requested
\* begin, the latest persisted date (not overwriting, a parseable date
\* persisted) and the recency floor (a positive --recent-days given).
C5_EffectiveBegin ==
    pc = "fetching" =>
        /\ cur.effective_beg \in BoundaryTerms(cur, file)
        /\ \A t \in BoundaryTerms(cur, file) : t <= cur.effective_beg

\* C5's case: all three terms are present and the persisted date decides.
C5_Witness ==
    /\ pc = "fetching"
    /\ ~cur.overwrite
    /\ Cardinality(BoundaryTerms(cur, file)) = 3
    /\ LatestDay(file) = Some(cur.effective_beg)

\* The persisted header lacks fields of the header computed from the fetch.
Narrower(prev, data) ==
    /\ prev.exists
    /\ prev.lines # <<>>
    /\ Range(build_header(base_meta(Code), kline_fields, data))
          \ Range(HeaderOf(prev)) # {}

\* What C6 says of a pass over a narrower persisted header.
NarrowingKept ==
    /\ cur.warning = Range(build_header(base_meta(Code), kline_fields, cur.data))
                        \ Range(HeaderOf(cur.prev))
    /\ file.exists
    /\ HeaderOf(file) = HeaderOf(cur.prev)
    /\ \A i \in DOMAIN file.lines : Len(file.lines[i]) = Len(HeaderOf(cur.prev))
    /\ ~cur.overwrite => IsPrefix(cur.prev.lines, file.lines)

\* C6 as stated: whenever the persisted header lacks computed fields, the
\* warning lists them, the write goes ahead in the persisted header's shape
\* and the header line stays as it was.
C6_NarrowingAlways ==
    (Merged /\ Narrower(cur.prev, cur.data)) => NarrowingKept

\* C6 as the code has it: the same, for every pass that reads the persisted
\* header (kcb_daily in either mode, kcb_daily_incremental when not
\* overwriting).
C6_NarrowingWhenHeaderRead ==
    (Merged /\ Narrower(cur.prev, cur.data)
        /\ (cur.driver = "daily" \/ ~cur.overwrite)) => NarrowingKept

\* C6's case: rows with an extra metadata field were appended under a
\* narrower persisted header.
C6_Witness ==
    /\ Merged
    /\ Narrower(cur.prev, cur.data)
    /\ ~cur.overwrite
    /\ cur.nrows > 0
    /\ cur.warning = {"meta_decimal"}
    /\ Len(file.lines) > Len(cur.prev.lines)

\* ============================================================ the detectors

\* Python indexes from 0: the element a Python index names.
At(s, i) == s[i + 1]

\* Exact fractions stand for the floats of the detectors.
Rat(n, d) == [num |-> n, den |-> d]

RatSub(a, b) == Rat(a.num * b.den - b.num * a.den, a.den * b.den)

\* a / b for b > 0
RatDiv(a, b) == Rat(a.num * b.den, a.den * b.num)

RatAbs(a) == Rat(IF a.num < 0 THEN 0 - a.num ELSE a.num, a.den)

RatLt(a, b) == a.num * b.den < b.num * a.den

RatLe(a, b) == a.num * b.den <= b.num * a.den

RatEq(a, b) == a.num * b.den = b.num * a.den

\* Closing prices of the series the detectors are run on.
Closes == {5, 6, 7}

\* Prices of the series the new-high detector is run on.
HighPrices == {5, 6, 7, 8}

\* load_series' rows (date_int, date_raw, close) for the closes of successive
\* trading days; the day's ordinal stands for both forms of its date.
RowsOf(closes) == [i \in DOMAIN closes |-> <<i, i, closes[i]>>]

\* closes = [row[2] for row in rows]
ClosesOf(rows) == [i \in DOMAIN rows |-> rows[i][3]]

\* the builtin sum
RECURSIVE sum(_)
sum(values) ==
    IF values = <<>> THEN 0 ELSE Head(values) + sum(Tail(values))

\* the builtin max of a non-empty list
RECURSIVE max(_)
max(values) ==
    IF Len(values) = 1 THEN Head(values)
    ELSE Max(Head(values), max(Tail(values)))

\* compute_ma up to its loop: the result list of None, the early return for
\* a series shorter than the window, the first window's sum and mean.
ma_enter(values, window) ==
    LET count == Len(values)
        nones == [i \in 1..count |-> None]
    IN  IF count < window
        THEN [pc |-> "returned", idx |-> 0, window_sum |-> 0, ma |-> nones]
        ELSE LET window_sum == sum(SubSeq(values, 1, window))
             IN  [pc |-> "loop", idx |-> window, window_sum |-> window_sum,
                  ma |-> [nones EXCEPT
                             ![window] = Some(Rat(window_sum, window))]]

\* One iteration of compute_ma's loop with an off-by-one in the value that
\* leaves the window.
ma_loop_late_drop(st, values, window) ==
    IF st.idx < Len(values)
    THEN LET window_sum == st.window_sum + At(values, st.idx)
                               - At(values, st.idx - window + 1)
         IN  [pc |-> "loop", idx |-> st.idx + 1, window_sum |-> window_sum,
              ma |-> [st.ma EXCEPT
                         ![st.idx + 1] = Some(Rat(window_sum, window))]]
    ELSE [st EXCEPT !.pc = "returned"]

\* One iteration of compute_ma's loop over range(window, count), or the
\* return when the range is used up.
ma_loop(st, values, window) ==
    IF st.idx < Len(values)
    THEN LET window_sum == st.window_sum + At(values, st.idx)
                               - At(values, st.idx - window)
         IN  [pc |-> "loop", idx |-> st.idx + 1, window_sum |-> window_sum,
              ma |-> [st.ma EXCEPT
                         ![st.idx + 1] = Some(Rat(window_sum, window))]]
    ELSE [st EXCEPT !.pc = "returned"]

RECURSIVE ma_run(_, _, _)
ma_run(st, values, window) ==
    IF st.pc = "returned" THEN st.ma
    ELSE ma_run(ma_loop(st, values, window), values, window)

compute_ma(values, window) == ma_run(ma_enter(values, window), values, window)

\* The rows of one of the given lists of closes are at hand (load_series
\* returns no empty list) and no tool of the store is running.
Loaded(CloseLists) ==
    /\ file = AbsentFile
    /\ pc = "idle"
    /\ cur = NoPass
    /\ series \in {RowsOf(closes) : closes \in CloseLists}
    /\ batch = NoBatch
    /\ ma = <<>>
    /\ signal = <<>>

\* compute_ma is called with a list of closes and a window >= 1.
InitMA ==
    /\ Loaded(SeqUpTo(Closes, MaxLen))
    /\ cfg \in [window : 1..MaxWindow]

MaEnter ==
    /\ ma = <<>>
    /\ ma' = ma_enter(ClosesOf(series), cfg.window)
    /\ UNCHANGED <<storeVars, series, cfg, signal, batch>>

MaLoop ==
    /\ ma # <<>>
    /\ ma.pc = "loop"
    /\ ma' = ma_loop(ma, ClosesOf(series), cfg.window)
    /\ UNCHANGED <<storeVars, series, cfg, signal, batch>>

NextMA ==
    \/ MaEnter
    \/ MaLoop

SpecMA == InitMA /\ [][NextMA]_vars

\* The sum of the w values ending at Python index i, added up one by one.
RECURSIVE WindowSum(_, _, _)
WindowSum(values, i, w) ==
    IF w = 0 THEN 0 ELSE At(values, i) + WindowSum(values, i - 1, w - 1)

\* ma[i] is as the definition of the simple moving average has it.
MeanAt(result, values, i, w) ==
    IF i < w - 1
    THEN At(result, i) = None
    ELSE /\ At(result, i) # None
         /\ RatEq(At(result, i)[1], Rat(WindowSum(values, i, w), w))

\* C7: compute_ma's result has the length of its input; entry i is undefined
\* for i < w-1 and the mean of values[i-w+1..i] otherwise; the running sum
\* equals the directly computed sum of the current window at every step; a
\* series shorter than the window has every entry undefined.
C7_MovingAverage ==
    ma # <<>> =>
        LET values == ClosesOf(series)
            w == cfg.window
            n == Len(values)
        IN  /\ Len(ma.ma) = n
            /\ ma.pc = "loop" =>
                /\ ma.window_sum = WindowSum(values, ma.idx - 1, w)
                /\ \A i \in 0..(ma.idx - 1) : MeanAt(ma.ma, values, i, w)
            /\ ma.pc = "returned" =>
                /\ \A i \in 0..(n - 1) : MeanAt(ma.ma, values, i, w)
                /\ ma.ma = compute_ma(values, w)
                /\ n < w => \A i \in 0..(n - 1) : At(ma.ma, i) = None

\* C7's case: compute_ma returned after sliding the window, and the value
\* that left the window differs from the one that entered it.
C7_Witness ==
    /\ ma # <<>>
    /\ ma.pc = "returned"
    /\ cfg.window >= 2
    /\ Len(series) > cfg.window
    /\ At(ClosesOf(series), 0) # At(ClosesOf(series), cfg.window)

\* ------------------------------------------------- kcb_signal_ma120.py

\* find_signal's test of a day for a cross below the average, without the
\* requirement that the previous day closed at or above it.
is_down_cross_any_prev(prev_close, prev_ma, close, cur_ma) ==
    RatLt(Rat(close, 1), cur_ma)

\* prev_close >= prev_ma and close < cur_ma
is_down_cross(prev_close, prev_ma, close, cur_ma) ==
    /\ RatLe(prev_ma, Rat(prev_close, 1))
    /\ RatLt(Rat(close, 1), cur_ma)

\* prev_close < prev_ma and close >= cur_ma
is_up_cross(prev_close, prev_ma, close, cur_ma) ==
    /\ RatLt(Rat(prev_close, 1), prev_ma)
    /\ RatLe(cur_ma, Rat(close, 1))

\* find_signal's loop over range(window_start, count) from idx on, with the
\* down_idx and up_idx found so far; gives both when the range is used up
\* or the loop breaks.
RECURSIVE cross_scan(_, _, _, _, _)
cross_scan(rows, ma_values, idx, down_idx, up_idx) ==
    IF idx >= Len(rows)
    THEN [down_idx |-> down_idx, up_idx |-> up_idx]
    ELSE IF idx = 0 \/ At(ma_values, idx) = None
                    \/ At(ma_values, idx - 1) = None
    THEN cross_scan(rows, ma_values, idx + 1, down_idx, up_idx)
    ELSE LET prev_close == At(rows, idx - 1)[3]
             prev_ma == At(ma_values, idx - 1)[1]
             close == At(rows, idx)[3]
             cur_ma == At(ma_values, idx)[1]
         IN  IF down_idx = None
             THEN IF is_down_cross(prev_close, prev_ma, close, cur_ma)
                  THEN cross_scan(rows, ma_values, idx + 1, Some(idx), up_idx)
                  ELSE cross_scan(rows, ma_values, idx + 1, down_idx, up_idx)
             ELSE IF is_up_cross(prev_close, prev_ma, close, cur_ma)
                  THEN [down_idx |-> down_idx, up_idx |-> Some(idx)]
                  ELSE cross_scan(rows, ma_values, idx + 1, down_idx, up_idx)

\* The returned dict keeps the dates; last_close and last_ma, formatted
\* prices of the last row, are left out.
find_signal(rows, window_days, ma_window) ==
    IF Len(rows) < ma_window THEN None
    ELSE LET closes == ClosesOf(rows)
             ma_values == compute_ma(closes, ma_window)
             count == Len(rows)
             window_start == Max(ma_window - 1, count - window_days)
             found == cross_scan(rows, ma_values, window_start, None, None)
         IN  IF found.down_idx = None \/ found.up_idx = None THEN None
             ELSE Some([down_date |-> At(rows, found.down_idx[1])[2],
                        up_date |-> At(rows, found.up_idx[1])[2],
                        last_date |-> At(rows, count - 1)[2]])

\* main's call of find_signal for one file; --window and --ma-window have
\* passed main's validation.
FindSignal ==
    /\ signal = <<>>
    /\ \E window_days \in 1..(MaxCrossLen + 1), ma_window \in 2..MaxWindow :
        signal' = [call |-> "find_signal",
                   window_days |-> window_days,
                   ma_window |-> ma_window,
                   result |-> find_signal(series, window_days, ma_window)]
    /\ UNCHANGED <<storeVars, series, cfg, ma, batch>>

InitCross ==
    /\ Loaded(SeqUpTo(Closes, MaxCrossLen) \ {<<>>})
    /\ cfg = <<>>

NextCross == FindSignal

SpecCross == InitCross /\ [][NextCross]_vars

\* The w-day average at Python index i, from the definition; it is defined
\* from index w-1 on.
Avg(closes, w, i) == Rat(WindowSum(closes, i, w), w)

\* Day i crosses below the average: the averages of days i-1 and i are
\* defined, day i-1 closed at or above its average and day i below its own.
DownCrossAt(closes, w, i) ==
    /\ i - 1 >= w - 1
    /\ RatLe(Avg(closes, w, i - 1), Rat(At(closes, i - 1), 1))
    /\ RatLt(Rat(At(closes, i), 1), Avg(closes, w, i))

\* Day j crosses back: day j-1 closed below its average and day j at or
\* above its own.
UpCrossAt(closes, w, j) ==
    /\ j - 1 >= w - 1
    /\ RatLt(Rat(At(closes, j - 1), 1), Avg(closes, w, j - 1))
    /\ RatLe(Avg(closes, w, j), Rat(At(closes, j), 1))

Least(S) == CHOOSE x \in S : \A y \in S : x <= y

\* The indices find_signal scans: max(ma_window-1, count-window_days)..count-1.
ScanRange(n, window_days, w) == Max(w - 1, n - window_days)..(n - 1)

\* The down-cross days of the scan range.
Downs(closes, window_days, w) ==
    {i \in ScanRange(Len(closes), window_days, w) : DownCrossAt(closes, w, i)}

\* The up-cross days after day d.
UpsAfter(closes, w, d) ==
    {j \in (d + 1)..(Len(closes) - 1) : UpCrossAt(closes, w, j)}

\* C8: find_signal reports the first down-cross day of the scan range and the
\* first up-cross day after it, days with an undefined average never
\* qualifying; it reports nothing when either is missing.
C8_FirstDownThenFirstUp ==
    (signal # <<>> /\ signal.call = "find_signal") =>
        LET closes == ClosesOf(series)
            w == signal.ma_window
            downs == Downs(closes, signal.window_days, w)
        IN  IF downs = {} \/ UpsAfter(closes, w, Least(downs)) = {}
            THEN signal.result = None
            ELSE /\ signal.result # None
                 /\ signal.result[1].down_date
                        = At(series, Least(downs))[2]
                 /\ signal.result[1].up_date
                        = At(series, Least(UpsAfter(closes, w, Least(downs))))[2]

\* C8's case: a signal was returned for a series with a second up-cross
\* after the reported one.
C8_Witness ==
    /\ signal # <<>>
    /\ signal.call = "find_signal"
    /\ signal.result # None
    /\ \E j \in DOMAIN series :
        /\ At(series, j - 1)[2] > signal.result[1].up_date
        /\ UpCrossAt(ClosesOf(series), signal.ma_window, j - 1)

\* ------------------------------------------- kcb_signal_new_high_20d.py

\* rows[-k:] for 1 <= k <= len(rows)
last_rows(rows, k) == SubSeq(rows, Len(rows) - k + 1, Len(rows))

\* The prices the last one is compared with, the last one included.
prior_prices_with_last(prices) == prices

\* prices[:-1]
prior_prices(prices) == SubSeq(prices, 1, Len(prices) - 1)

\* The returned dict keeps window_start and last_date; the formatted prices
\* are left out.
find_new_high(rows, window_days, include_equal) ==
    IF Len(rows) < window_days \/ window_days < 2 THEN None
    ELSE LET window_rows == last_rows(rows, window_days)
             prices == ClosesOf(window_rows)
             last_price == At(prices, Len(prices) - 1)
             prior_max == max(prior_prices(prices))
             found == Some([window_start |-> At(window_rows, 0)[2],
                            last_date |-> At(window_rows,
                                             Len(window_rows) - 1)[2]])
         IN  IF include_equal
             THEN IF last_price < prior_max THEN None ELSE found
             ELSE IF last_price <= prior_max THEN None ELSE found

\* find_new_high is called on the rows of one file.
FindNewHigh ==
    /\ signal = <<>>
    /\ \E window_days \in 0..(MaxHighLen + 1), include_equal \in BOOLEAN :
        signal' = [call |-> "find_new_high",
                   window_days |-> window_days,
                   include_equal |-> include_equal,
                   result |-> find_new_high(series, window_days,
                                            include_equal)]
    /\ UNCHANGED <<storeVars, series, cfg, ma, batch>>

InitHigh ==
    /\ Loaded(SeqUpTo(HighPrices, MaxHighLen) \ {<<>>})
    /\ cfg = <<>>

NextHigh == FindNewHigh

SpecHigh == InitHigh /\ [][NextHigh]_vars

\* The last price of the series exceeds (or, with equality admitted, is not
\* below) each of the k-1 prices before it.
BeatsPrior(closes, k, include_equal) ==
    \A i \in (Len(closes) - k)..(Len(closes) - 2) :
        \/ At(closes, Len(closes) - 1) > At(closes, i)
        \/ include_equal /\ At(closes, Len(closes) - 1) = At(closes, i)

\* C9: find_new_high returns a signal exactly when window_days >= 2, the
\* series has at least window_days rows and the last price is above the
\* greatest of the window's other prices (at or above it with include_equal).
\* [5,6,7,6,8] with window 4 gives a signal; [5,6,7,6,7] with window 4 gives
\* one only with include_equal.
C9_NewHigh ==
    (signal # <<>> /\ signal.call = "find_new_high") =>
        LET closes == ClosesOf(series)
            k == signal.window_days
        IN  /\ signal.result # None <=>
                /\ k >= 2
                /\ Len(closes) >= k
                /\ BeatsPrior(closes, k, signal.include_equal)
            /\ (closes = <<5, 6, 7, 6, 8>> /\ k = 4) => signal.result # None
            /\ (closes = <<5, 6, 7, 6, 7>> /\ k = 4) =>
                (signal.result # None <=> signal.include_equal)

\* C9's case: [5,6,7,6,7] with window 4 gave a signal because equality was
\* admitted.
C9_Witness ==
    /\ signal # <<>>
    /\ signal.call = "find_new_high"
    /\ ClosesOf(series) = <<5, 6, 7, 6, 7>>
    /\ signal.window_days = 4
    /\ signal.include_equal
    /\ signal.result # None

\* --------------------------------------------- kcb_signal_ma20_ma30.py

\* The index of the first defined entry of ma_values, 0 when there is none.
first_ma_idx(ma_values) ==
    LET defined == {i \in DOMAIN ma_values : ma_values[i] # None}
    IN  IF defined = {} THEN 0 ELSE Least(defined) - 1

\* abs(close - ma) / ma > band
outside_band(close, m, band) ==
    RatLt(band, RatDiv(RatAbs(RatSub(Rat(close, 1), m)), m))

\* count_outside giving up when the count reaches max_outside.
RECURSIVE count_outside_at_limit(_, _, _, _, _, _)
count_outside_at_limit(closes, ma_values, idx, band, max_outside, outside) ==
    IF idx >= Len(closes) THEN Some(outside)
    ELSE LET m == At(ma_values, idx)
         IN  IF m = None \/ m[1].num <= 0 THEN None
             ELSE IF outside_band(At(closes, idx), m[1], band)
             THEN IF outside + 1 >= max_outside THEN None
                  ELSE count_outside_at_limit(closes, ma_values, idx + 1, band,
                                              max_outside, outside + 1)
             ELSE count_outside_at_limit(closes, ma_values, idx + 1, band,
                                         max_outside, outside)

\* The loop counting the days outside the band, from idx on: None when it
\* returns None, else the count.
RECURSIVE count_outside(_, _, _, _, _, _)
count_outside(closes, ma_values, idx, band, max_outside, outside) ==
    IF idx >= Len(closes) THEN Some(outside)
    ELSE LET m == At(ma_values, idx)
         IN  IF m = None \/ m[1].num <= 0 THEN None
             ELSE IF outside_band(At(closes, idx), m[1], band)
             THEN IF outside + 1 > max_outside THEN None
                  ELSE count_outside(closes, ma_values, idx + 1, band,
                                     max_outside, outside + 1)
             ELSE count_outside(closes, ma_values, idx + 1, band,
                                max_outside, outside)

\* The averages the function divides by on its way, in order: the day's
\* average for each day the first loop gets past its test `ma is None or
\* ma <= 0`, up to the day it returns on.
RECURSIVE outside_divisors(_, _, _, _, _, _)
outside_divisors(closes, ma_values, idx, band, max_outside, outside) ==
    IF idx >= Len(closes) THEN <<>>
    ELSE LET m == At(ma_values, idx)
         IN  IF m = None \/ m[1].num <= 0 THEN <<>>
             ELSE IF outside_band(At(closes, idx), m[1], band)
             THEN IF outside + 1 > max_outside THEN <<m>>
                  ELSE <<m>> \o outside_divisors(closes, ma_values, idx + 1,
                                                 band, max_outside, outside + 1)
             ELSE <<m>> \o outside_divisors(closes, ma_values, idx + 1, band,
                                            max_outside, outside)

\* The loop's test of a day with the strict comparison cur > prev.
ma_not_below_strict(cur_ma, prev) == RatLt(prev, cur_ma)

\* cur >= prev
ma_not_below(cur_ma, prev) == RatLe(prev, cur_ma)

\* The loop counting the days whose average is not below the previous
\* day's, from idx on: None when it returns None, else the count.
RECURSIVE count_up_days(_, _, _)
count_up_days(ma_values, idx, up_days) ==
    IF idx >= Len(ma_values) THEN Some(up_days)
    ELSE LET prev == At(ma_values, idx - 1)
             cur_ma == At(ma_values, idx)
         IN  IF prev = None \/ cur_ma = None THEN None
             ELSE count_up_days(ma_values, idx + 1,
                                IF ma_not_below(cur_ma[1], prev[1])
                                THEN up_days + 1 ELSE up_days)

\* The returned dict keeps the dates and up_days; last_close, last_ma and
\* rise_pct, formatted decimals, are left out.
check_ma_signal(rows, closes, ma_values, window_days, band, max_outside, min_up_days, min_rise_pct) ==
    LET total == Len(rows)
        start_idx == total - window_days
    IN  IF total < window_days THEN None
        ELSE IF start_idx < first_ma_idx(ma_values) THEN None
        ELSE LET start_ma == At(ma_values, start_idx)
                 end_ma == At(ma_values, total - 1)
             IN  IF start_ma = None \/ end_ma = None THEN None
                 ELSE IF start_ma[1].num <= 0 THEN None
                 ELSE LET outside == count_outside(closes, ma_values,
                                         start_idx, band, max_outside, 0)
                          up_days == count_up_days(ma_values, start_idx + 1, 0)
                          rise_pct == RatDiv(RatSub(end_ma[1], start_ma[1]),
                                             start_ma[1])
                      IN  IF outside = None THEN None
                          ELSE IF up_days = None THEN None
                          ELSE IF up_days[1] < min_up_days THEN None
                          ELSE IF RatLt(rise_pct, min_rise_pct) THEN None
                          ELSE Some([start_date |-> At(rows, start_idx)[2],
                                     end_date |-> At(rows, total - 1)[2],
                                     up_days |-> ToString(up_days[1])])

\* Every average check_ma_signal divides by: those of the first loop and,
\* when it gets as far as rise_pct, start_ma.
check_ma_divisors(rows, closes, ma_values, window_days, band, max_outside, min_up_days) ==
    LET total == Len(rows)
        start_idx == total - window_days
    IN  IF total < window_days THEN <<>>
        ELSE IF start_idx < first_ma_idx(ma_values) THEN <<>>
        ELSE LET start_ma == At(ma_values, start_idx)
                 end_ma == At(ma_values, total - 1)
             IN  IF start_ma = None \/ end_ma = None THEN <<>>
                 ELSE IF start_ma[1].num <= 0 THEN <<>>
                 ELSE LET outside == count_outside(closes, ma_values,
                                         start_idx, band, max_outside, 0)
                          up_days == count_up_days(ma_values, start_idx + 1, 0)
                          first == outside_divisors(closes, ma_values,
                                       start_idx, band, max_outside, 0)
                      IN  IF outside = None THEN first
                          ELSE IF up_days = None THEN first
                          ELSE IF up_days[1] < min_up_days THEN first
                          ELSE first \o <<start_ma>>

\* main's loop over ma_list without the break after a result.
RECURSIVE scan_ma_list_all(_, _, _, _)
scan_ma_list_all(rows, ma_list, args, min_up_days) ==
    IF ma_list = <<>> THEN <<>>
    ELSE LET ma_window == Head(ma_list)
             closes == ClosesOf(rows)
             ma_values == compute_ma(closes, ma_window)
             found == check_ma_signal(rows, closes, ma_values, args.window,
                                      args.band, args.max_outside,
                                      min_up_days, args.min_rise_pct)
         IN  <<[ma_window |-> ma_window, signal |-> found]>>
                \o scan_ma_list_all(rows, Tail(ma_list), args, min_up_days)

\* main's loop over ma_list for one file: the windows tried, each with what
\* check_ma_signal returned, up to the first that gave a signal.
RECURSIVE scan_ma_list(_, _, _, _)
scan_ma_list(rows, ma_list, args, min_up_days) ==
    IF ma_list = <<>> THEN <<>>
    ELSE LET ma_window == Head(ma_list)
             closes == ClosesOf(rows)
             ma_values == compute_ma(closes, ma_window)
             found == check_ma_signal(rows, closes, ma_values, args.window,
                                      args.band, args.max_outside,
                                      min_up_days, args.min_rise_pct)
             tried == [ma_window |-> ma_window, signal |-> found]
         IN  IF found = None
             THEN <<tried>> \o scan_ma_list(rows, Tail(ma_list), args,
                                            min_up_days)
             ELSE <<tried>>

\* --ma-list after parse_ma_list: one or two different windows above 1.
MaLists ==
    {l \in SeqUpTo(2..MaxWindow, 2) :
        l # <<>> /\ (Len(l) = 2 => l[1] # l[2])}

\* The arguments of a run that passed main's validation.
BandArgs ==
    [window : 1..MaxLen,
     ma_list : MaLists,
     band : {Rat(0, 1), Rat(1, 5)},
     max_outside : {0, 1},
     min_up_days : {None, Some(0), Some(2)},
     min_rise_pct : {Rat(0, 1), Rat(1, 10)}]

\* min_up_days = max(1, args.window - 4) when --min-up-days is not given
default_min_up_days(args) ==
    IF args.min_up_days = None THEN Max(1, args.window - 4)
    ELSE args.min_up_days[1]

\* main's work on one file.
CheckMaSignal ==
    /\ signal = <<>>
    /\ \E args \in BandArgs :
        signal' = [call |-> "check_ma_signal",
                   args |-> args,
                   min_up_days |-> default_min_up_days(args),
                   tried |-> scan_ma_list(series, args.ma_list, args,
                                          default_min_up_days(args))]
    /\ UNCHANGED <<storeVars, series, cfg, ma, batch>>

InitBand ==
    /\ Loaded(SeqUpTo(Closes, MaxLen) \ {<<>>})
    /\ cfg = <<>>

NextBand == CheckMaSignal

SpecBand == InitBand /\ [][NextBand]_vars

\* Closes that a file may hold besides the usual ones: nothing, and a
\* negative amount.
SignedCloses == {0 - 6, 0, 5, 6}

\* Longest series of signed closes.
MaxSignedLen == 3

InitSigned ==
    /\ Loaded(SeqUpTo(SignedCloses, MaxSignedLen) \ {<<>>})
    /\ cfg = <<>>

\* The band-trend detector on series that hold zero and negative closes.
SpecSigned == InitSigned /\ [][NextBand]_vars

\* The w-day average is defined on each of the last k days, has the same
\* positive value on all of them, and every close of those days is within
\* the band around it.
FlatWithinBand(closes, w, k, band) ==
    LET n == Len(closes)
    IN  /\ n >= k
        /\ n - k >= w - 1
        /\ \A i \in (n - k)..(n - 1) :
            /\ Avg(closes, w, i).num > 0
            /\ RatEq(Avg(closes, w, i), Avg(closes, w, n - k))
            /\ RatLe(RatDiv(RatAbs(RatSub(Rat(At(closes, i), 1),
                                          Avg(closes, w, i))),
                            Avg(closes, w, i)), band)

\* The tried windows of a band-trend run whose average is flat, with every
\* close within the band, over the run's window.
FlatTried ==
    IF signal # <<>> /\ signal.call = "check_ma_signal"
    THEN {i \in DOMAIN signal.tried :
            FlatWithinBand(ClosesOf(series), signal.tried[i].ma_window,
                           signal.args.window, signal.args.band)}
    ELSE {}

\* C10 as stated: over a window with a flat positive average and every close
\* within the band, the detector counts no non-decreasing day and returns no
\* signal whenever min_up_days >= 1.
C10_FlatGivesNoSignal ==
    \A i \in FlatTried :
        signal.min_up_days >= 1 => signal.tried[i].signal = None

\* C10 as the code has it: over such a window every day after the first
\* counts as non-decreasing, so up_days is window_days - 1, and a signal is
\* returned exactly when min_up_days <= window_days - 1 and
\* min_rise_pct <= 0.
C10_FlatCountsEveryDay ==
    \A i \in FlatTried :
        LET found == signal.tried[i].signal
        IN  /\ found # None <=>
                /\ signal.min_up_days <= signal.args.window - 1
                /\ RatLe(signal.args.min_rise_pct, Rat(0, 1))
            /\ found # None =>
                found[1].up_days = ToString(signal.args.window - 1)

\* C10's case: a flat average over a window of three days, closes within
\* the band but not all equal, min_up_days 2, and a signal was returned.
C10_Witness ==
    /\ FlatTried # {}
    /\ signal.args.window = 3
    /\ signal.min_up_days = 2
    /\ \E i \in FlatTried :
        /\ signal.tried[i].signal # None
        /\ signal.tried[i].signal[1].up_days = "2"
    /\ \E j \in DOMAIN series : series[j][3] # series[1][3]

\* What C17 says decides a signal, for the w-day average over the last k
\* of the closes: there are k of them; the average is defined and positive
\* on each; at most max_outside of them lie outside the band; at least
\* min_up of the days after the first have an average not below the
\* previous day's; the average rose by at least min_rise.
Decides(closes, w, k, band, max_outside, min_up, min_rise) ==
    LET n == Len(closes)
        days == (n - k)..(n - 1)
    IN  /\ n >= k
        /\ \A i \in days : i >= w - 1 /\ Avg(closes, w, i).num > 0
        /\ Cardinality({i \in days :
                RatLt(band, RatDiv(RatAbs(RatSub(Rat(At(closes, i), 1),
                                                 Avg(closes, w, i))),
                                   Avg(closes, w, i)))}) <= max_outside
        /\ Cardinality({i \in days \ {n - k} :
                RatLe(Avg(closes, w, i - 1), Avg(closes, w, i))}) >= min_up
        /\ RatLe(min_rise,
                 RatDiv(RatSub(Avg(closes, w, n - 1), Avg(closes, w, n - k)),
                        Avg(closes, w, n - k)))

\* C17: for every window the band-trend run tried, check_ma_signal returned
\* a signal exactly when the conditions of the claim hold together, and
\* every average it divided by on the way was defined and positive.
C17_BandTrendDecision ==
    (signal # <<>> /\ signal.call = "check_ma_signal") =>
        \A i \in DOMAIN signal.tried :
            LET closes == ClosesOf(series)
                w == signal.tried[i].ma_window
                divisors == check_ma_divisors(series, closes,
                                compute_ma(closes, w), signal.args.window,
                                signal.args.band, signal.args.max_outside,
                                signal.min_up_days)
            IN  /\ signal.tried[i].signal # None <=>
                        Decides(closes, w, signal.args.window,
                                signal.args.band, signal.args.max_outside,
                                signal.min_up_days, signal.args.min_rise_pct)
                /\ \A j \in DOMAIN divisors :
                        divisors[j] # None /\ divisors[j][1].num > 0

\* C17's case: over a window of two days, one of them outside the band
\* with one such day allowed, the average rose and a signal was returned.
C17_Witness ==
    /\ signal # <<>>
    /\ signal.call = "check_ma_signal"
    /\ signal.args.window = 2
    /\ signal.args.max_outside = 1
    /\ signal.args.min_rise_pct = Rat(1, 10)
    /\ \E i \in DOMAIN signal.tried :
        /\ signal.tried[i].signal # None
        /\ Cardinality({d \in (Len(series) - 2)..(Len(series) - 1) :
                outside_band(At(ClosesOf(series), d),
                             Avg(ClosesOf(series), signal.tried[i].ma_window, d),
                             signal.args.band)}) = 1

\* The places in the configured list of the windows that satisfy all the
\* conditions on the series at hand.
Matching ==
    {i \in DOMAIN signal.args.ma_list :
        Decides(ClosesOf(series), signal.args.ma_list[i], signal.args.window,
                signal.args.band, signal.args.max_outside,
                signal.min_up_days, signal.args.min_rise_pct)}

\* C18: the band-trend run tries the windows in the configured order and
\* stops at the first that satisfies all conditions: the windows tried are
\* the configured ones up to and including the earliest matching one (all
\* of them when none matches), only the last tried can carry a result, and
\* it does exactly when some window matches.
C18_FirstMatchOnly ==
    (signal # <<>> /\ signal.call = "check_ma_signal") =>
        LET tried == signal.tried
            ma_list == signal.args.ma_list
        IN  /\ IsPrefix([i \in DOMAIN tried |-> tried[i].ma_window], ma_list)
            /\ Cardinality({i \in DOMAIN tried : tried[i].signal # None}) <= 1
            /\ Matching = {} =>
                    /\ Len(tried) = Len(ma_list)
                    /\ \A i \in DOMAIN tried : tried[i].signal = None
            /\ Matching # {} =>
                    /\ Len(tried) \in Matching
                    /\ \A i \in Matching : Len(tried) <= i
                    /\ tried[Len(tried)].signal # None
                    /\ \A i \in 1..(Len(tried) - 1) : tried[i].signal = None

\* C18's case: two windows were configured, both satisfy the conditions,
\* and the run stopped with a result for the first.
C18_Witness ==
    /\ signal # <<>>
    /\ signal.call = "check_ma_signal"
    /\ Len(signal.args.ma_list) = 2
    /\ Matching = {1, 2}
    /\ Len(signal.tried) = 1
    /\ signal.tried[1].ma_window = signal.args.ma_list[1]
    /\ signal.tried[1].signal # None

\* ====================================================== the batch loops

\* A second instrument of --codes.
Code2 == "688002"

Codes == {Code, Code2}

\* items: the instruments of a run, in the order the loop takes them.
ItemLists ==
    {l \in SeqUpTo(Codes, 2) : l # <<>> /\ (Len(l) = 2 => l[1] # l[2])}

\* The per-stock file of an instrument before a run: none yet, or what an
\* earlier run of kcb_daily wrote for one kline.
StartFiles(code) ==
    {AbsentFile,
     daily_finish(AbsentFile, code, FALSE, {},
                  [empty |-> FALSE, meta |-> <<>>,
                   klines |-> << <<DateA, "10">> >>]).file}

\* os.path.join(daily_dir, f"{code}.csv") with every instrument given the
\* file of the first.
output_path_shared(code) == <<Code, ".csv">>

\* os.path.join(daily_dir, f"{code}.csv"): the file's name in daily_dir, as
\* the pair os.path.splitext gives.
output_path(code) == <<code, ".csv">>

\* The body of the merge loop for one item: from output_path's file and the
\* fetch result to what the body leaves behind.
merge_item(driver, f, code, args, data) ==
    IF driver = "daily"
    THEN daily_finish(f, code, args.overwrite,
                      daily_begin(f, args).existing_dates, data)
    ELSE incremental_finish(f, code, args.overwrite,
                            incremental_begin(f, args).existing_dates,
                            incremental_begin(f, args).existing_header, data)

\* The loop ending at the first skipped item.
next_index_break(idx, count, skipped) ==
    IF skipped THEN count ELSE idx + 1

\* `continue` and the end of the body alike go on to the next item.
next_index(idx, count, skipped) == idx + 1

\* A run of a merge driver over `items`: the store before it, the fetch
\* result the remote holds for each instrument, and nothing visited yet.
MergeRun(driver, args, items, store, fetch) ==
    [tool |-> driver, args |-> args, items |-> items, idx |-> 0,
     start |-> store, store |-> store, fetch |-> fetch,
     visited |-> <<>>, status |-> None]

\* One iteration of the merge loop of either driver.
MergeNext ==
    /\ batch.tool \in {"daily", "incremental"}
    /\ batch.status = None
    /\ batch.idx < Len(batch.items)
    /\ LET code == At(batch.items, batch.idx)
           p == merge_item(batch.tool, batch.store[output_path(code)], code,
                           batch.args, batch.fetch[code])
       IN  batch' = [batch EXCEPT
                !.store = [@ EXCEPT ![output_path(code)] = p.file],
                !.visited = Append(@, [item |-> code, msg |-> p.msg,
                                       nrows |-> p.nrows]),
                !.idx = next_index(batch.idx, Len(batch.items), p.msg # "")]
    /\ UNCHANGED <<storeVars, signalVars>>

\* The merge loop has no further item: main returns 0.
MergeReturn ==
    /\ batch.tool \in {"daily", "incremental"}
    /\ batch.status = None
    /\ batch.idx >= Len(batch.items)
    /\ batch' = [batch EXCEPT !.status = Some(0)]
    /\ UNCHANGED <<storeVars, signalVars>>

MergeRuns ==
    {MergeRun(driver, args, items, store, fetch) :
        driver \in {"daily", "incremental"},
        args \in DefaultRange(IncrementalArgs),
        items \in ItemLists,
        store \in {s \in [{<<c, ".csv">> : c \in Codes} ->
                             UNION {StartFiles(c) : c \in Codes}] :
                       \A c \in Codes : s[<<c, ".csv">>] \in StartFiles(c)},
        fetch \in [Codes -> SingleFetch]}

\* ------------------------------------------------------- the series parser

\* str.strip as text: of the texts of the model only DatePadded has blanks
\* around it.
strip_text(s) == IF s = DatePadded THEN DateB ELSE s

\* float(value) for the cells of the model: a run of digits is its number;
\* the empty cell, a missing cell (None) and any other text raise.
parse_float(value) ==
    IF value = None THEN None
    ELSE IF isdigit(Chars(value[1])) THEN Some(int(Chars(value[1])))
    ELSE None

\* "date" if "date" in fields else "f51" if "f51" in fields else None
resolve_field(fields, name, legacy) ==
    IF name \in Range(fields) THEN Some(name)
    ELSE IF legacy \in Range(fields) THEN Some(legacy)
    ELSE None

\* row.get(field), the default given when the header lacks the field; a
\* line shorter than the header has None under the missing columns.
row_get(header, line, field, default) ==
    IF field \in Range(header) THEN DictGet(header, line, field) ELSE default

\* (row.get(field) or "").strip()
text_of(header, line, field) ==
    LET value == row_get(header, line, field, None)
    IN  IF value = None THEN "" ELSE strip_text(value[1])

\* list.sort(key = item[0]) with the test for a later place made strict.
RECURSIVE insert_before_equal(_, _)
insert_before_equal(sorted, row) ==
    IF sorted = <<>> THEN <<row>>
    ELSE IF row[1] <= Head(sorted)[1] THEN <<row>> \o sorted
    ELSE <<Head(sorted)>> \o insert_before_equal(Tail(sorted), row)

\* Where a stable sort puts one more row: after every row whose key is not
\* greater.
RECURSIVE insert_row(_, _)
insert_row(sorted, row) ==
    IF sorted = <<>> THEN <<row>>
    ELSE IF row[1] < Head(sorted)[1] THEN <<row>> \o sorted
    ELSE <<Head(sorted)>> \o insert_row(Tail(sorted), row)

\* rows.sort(key=lambda item: item[0])
RECURSIVE sort_rows(_)
sort_rows(rows) ==
    IF rows = <<>> THEN <<>>
    ELSE insert_row(sort_rows(SubSeq(rows, 1, Len(rows) - 1)),
                    rows[Len(rows)])

\* load_series' loop over the records, given the resolved columns: the rows
\* kept so far with the code and name taken from the first kept row that
\* carries a code.
RECURSIVE read_rows(_, _, _, _, _)
read_rows(header, lines, date_col, price_col, acc) ==
    IF lines = <<>> THEN acc
    ELSE LET line == Head(lines)
             date_raw == text_of(header, line, date_col)
             date_int == parse_date_int(date_raw)
             price_val == parse_float(row_get(header, line, price_col,
                                              Some("")))
             keep == date_int # None /\ price_val # None
             first == keep /\ acc.code = ""
         IN  read_rows(header, Tail(lines), date_col, price_col,
                 IF ~keep THEN acc
                 ELSE [code |-> IF first THEN text_of(header, line, "code")
                                ELSE acc.code,
                       name |-> IF first THEN text_of(header, line, "name")
                                ELSE acc.name,
                       rows |-> Append(acc.rows,
                                    <<date_int[1], date_raw, price_val[1]>>)])

\* if not rows: return None; rows.sort(...); return code, name, rows
finish_series(acc) ==
    IF acc.rows = <<>> THEN None
    ELSE Some([acc EXCEPT !.rows = sort_rows(acc.rows)])

\* load_series of kcb_signal_ma120 and kcb_signal_ma20_ma30 on a file that
\* exists (its name came from os.listdir).
load_series(f) ==
    IF f.lines = <<>> \/ f.lines[1] = <<>> THEN None
    ELSE LET fields == f.lines[1]
             date_col == resolve_field(fields, "date", "f51")
             close_col == resolve_field(fields, "close", "f53")
         IN  IF date_col = None \/ close_col = None THEN None
             ELSE finish_series(
                      read_rows(fields, Tail(f.lines), date_col[1],
                                close_col[1],
                                [code |-> "", name |-> "", rows |-> <<>>]))

\* load_series of kcb_signal_new_high_20d; the high and close values kept
\* beside the price for the formatted output are left out of the rows.
load_series_price(f, price_field) ==
    IF f.lines = <<>> \/ f.lines[1] = <<>> THEN None
    ELSE LET fields == f.lines[1]
             date_col == resolve_field(fields, "date", "f51")
             high_col == resolve_field(fields, "high", "f54")
             close_col == resolve_field(fields, "close", "f53")
             price_col == IF price_field = "high" THEN high_col ELSE close_col
         IN  IF date_col = None \/ price_col = None THEN None
             ELSE finish_series(
                      read_rows(fields, Tail(f.lines), date_col[1],
                                price_col[1],
                                [code |-> "", name |-> "", rows |-> <<>>]))

\* ------------------------------------------------ the detector batch loops

\* int(part) of parse_ma_list: None stands for ValueError.
int_text(part) ==
    IF isdigit(Chars(part)) THEN Some(int(Chars(part))) ELSE None

\* parse_ma_list on value.split(","), the parts being the texts between the
\* commas.
RECURSIVE parse_ma_list(_)
parse_ma_list(parts) ==
    IF parts = <<>> THEN <<>>
    ELSE LET part == strip_text(Head(parts))
             num == int_text(part)
             rest == parse_ma_list(Tail(parts))
         IN  IF part = "" THEN rest
             ELSE IF num = None THEN rest
             ELSE IF num[1] > 1 THEN <<num[1]>> \o rest
             ELSE rest

\* main's validation of its arguments with the test of the moving-average
\* window left out.
valid_args_window_only(tool, args) ==
    CASE tool = "ma120" -> ~(args.window <= 0)
      [] tool = "new_high" -> ~(args.window <= 1)
      [] tool = "ma20_ma30" -> ~(args.window <= 0)

\* main's validation of its arguments, in each detector: FALSE where main
\* returns 2.
valid_args(tool, args) ==
    CASE tool = "ma120" -> ~(args.window <= 0 \/ args.ma <= 1)
      [] tool = "new_high" -> ~(args.window <= 1)
      [] tool = "ma20_ma30" ->
            ~(args.window <= 0) /\ parse_ma_list(args.ma_list) # <<>>

\* The detector's work on the rows of one file: None, or the signal.
detect(tool, args, rows) ==
    CASE tool = "ma120" -> find_signal(rows, args.window, args.ma)
      [] tool = "new_high" ->
            find_new_high(rows, args.window, args.include_equal)
      [] tool = "ma20_ma30" ->
            LET tried == scan_ma_list(rows, parse_ma_list(args.ma_list),
                                      args, default_min_up_days(args))
                last == tried[Len(tried)]
            IN  IF last.signal = None THEN None
                ELSE Some([ma_window |-> last.ma_window,
                           signal |-> last.signal[1]])

\* load_series as each detector calls it.
load_for(tool, args, f) ==
    IF tool = "new_high" THEN load_series_price(f, args.price_field)
    ELSE load_series(f)

\* The body of a detector's loop for one directory entry: why it was
\* skipped ("" when it was not) and the result appended, if any. A file
\* name is the pair os.path.splitext gives.
detect_item(tool, args, name, f) ==
    IF name[2] # ".csv" THEN [skip |-> "not csv", result |-> None]
    ELSE LET loaded == load_for(tool, args, f)
         IN  IF loaded = None THEN [skip |-> "no series", result |-> None]
             ELSE LET found == detect(tool, args, loaded[1].rows)
                  IN  IF found = None
                      THEN [skip |-> "no signal", result |-> None]
                      ELSE [skip |-> "",
                            result |-> Some(
                                [code |-> IF loaded[1].code # ""
                                          THEN loaded[1].code ELSE name[1],
                                 name |-> loaded[1].name,
                                 signal |-> found[1]])]

\* A run of a detector over the entries os.listdir gives, in that order.
DetectRun(tool, args, names, dir) ==
    [tool |-> tool, args |-> args, items |-> names, idx |-> 0,
     dir |-> dir, visited |-> <<>>, results |-> <<>>, out |-> None,
     checked |-> FALSE, status |-> None]

Detectors == {"ma120", "ma20_ma30", "new_high"}

\* main up to its loop: the arguments are validated; a bad one ends the
\* run with status 2.
DetectCheckArgs ==
    /\ batch.tool \in Detectors
    /\ batch.status = None
    /\ ~batch.checked
    /\ batch' = [batch EXCEPT
            !.checked = TRUE,
            !.status = IF valid_args(batch.tool, batch.args)
                       THEN None ELSE Some(2)]
    /\ UNCHANGED <<storeVars, signalVars>>

\* One iteration of a detector's loop over the directory.
DetectNext ==
    /\ batch.tool \in Detectors
    /\ batch.status = None
    /\ batch.checked
    /\ batch.idx < Len(batch.items)
    /\ LET name == At(batch.items, batch.idx)
           d == detect_item(batch.tool, batch.args, name, batch.dir[name])
       IN  batch' = [batch EXCEPT
                !.visited = Append(@, [item |-> name, msg |-> d.skip]),
                !.results = IF d.result = None THEN @
                            ELSE Append(@, d.result[1]),
                !.idx = next_index(batch.idx, Len(batch.items), d.skip # "")]
    /\ UNCHANGED <<storeVars, signalVars>>

\* The loop is over: write_results writes the result file, main returns 0.
DetectReturn ==
    /\ batch.tool \in Detectors
    /\ batch.status = None
    /\ batch.checked
    /\ batch.idx >= Len(batch.items)
    /\ batch' = [batch EXCEPT !.out = Some(batch.results),
                              !.status = Some(0)]
    /\ UNCHANGED <<storeVars, signalVars>>

\* The header kcb_daily writes without payload metadata.
StoreHeader == build_header(base_meta(Code), kline_fields, NoData)

\* A line of a per-stock file under StoreHeader.
StoreLine(code, date, close) == <<code, "", "1", "1." \o code, date, close>>

\* Per-stock files a detector may meet: a zero-length file, a file without
\* a date column, a file whose only record has no parsable date, a short
\* flat series, and a series that falls below and recovers.
SeriesFiles(code) ==
    {[exists |-> TRUE, lines |-> <<>>],
     [exists |-> TRUE, lines |-> << <<"code", "close">>, <<code, "10">> >>],
     [exists |-> TRUE,
      lines |-> <<StoreHeader, StoreLine(code, DateBad, "10")>>],
     [exists |-> TRUE,
      lines |-> <<StoreHeader, StoreLine(code, DateA, "10"),
                  StoreLine(code, DateB, "10")>>],
     [exists |-> TRUE,
      lines |-> <<StoreHeader, StoreLine(code, DateA, "11"),
                  StoreLine(code, DateB, "11"), StoreLine(code, DateC, "10"),
                  StoreLine(code, DateD, "11")>>]}

\* The entries of the data directory: the two per-stock files and a file
\* that is no CSV.
DirNames == {<<Code, ".csv">>, <<Code2, ".csv">>, <<"notes", ".txt">>}

\* What os.listdir may give: some of the entries, in any order.
Listings ==
    {l \in SeqUpTo(DirNames, 3) :
        l # <<>> /\ \A i, j \in DOMAIN l : i # j => l[i] # l[j]}

\* The directory's files by name.
Dirs ==
    {d \in [DirNames -> UNION {SeriesFiles(c) : c \in Codes}] :
        /\ d[<<Code, ".csv">>] \in SeriesFiles(Code)
        /\ d[<<Code2, ".csv">>] \in SeriesFiles(Code2)
        /\ d[<<"notes", ".txt">>] = [exists |-> TRUE, lines |-> <<>>]}

\* The arguments argparse hands to main, good and bad.
DetectArgs(tool) ==
    CASE tool = "ma120" -> [window : {0, 3}, ma : {1, 2}]
      [] tool = "new_high" ->
            [window : {1, 2}, include_equal : {FALSE},
             price_field : {"close", "high"}]
      [] tool = "ma20_ma30" ->
            [window : {0, 2},
             ma_list : {<<"2">>, <<"x", "2">>, <<"3", "2">>, <<"x">>,
                        <<"1", "">>},
             band : {Rat(1, 10)}, max_outside : {0},
             min_up_days : {None}, min_rise_pct : {Rat(0, 1)}]

DetectRuns ==
    UNION {{DetectRun(tool, args, names, dir) :
                args \in DetectArgs(tool), names \in Listings, dir \in Dirs} :
           tool \in Detectors}

\* A run of a merge driver or of a detector is about to start.
InitBatch ==
    /\ file = AbsentFile
    /\ pc = "idle"
    /\ cur = NoPass
    /\ IdleSignal
    /\ batch \in MergeRuns \cup DetectRuns

NextBatch ==
    \/ MergeNext
    \/ MergeReturn
    \/ DetectCheckArgs
    \/ DetectNext
    \/ DetectReturn

SpecBatch == InitBatch /\ [][NextBatch]_vars

\* The instrument at Python index i of a run is bad: its fetch failed or
\* came back empty (a merge run), or its file gives no series (a detector
\* run: no resolvable column, or no record survives).
BadItem(i) ==
    LET item == At(batch.items, i)
    IN  IF batch.tool \in Detectors
        THEN item[2] = ".csv"
             /\ load_for(batch.tool, batch.args, batch.dir[item]) = None
        ELSE batch.fetch[item].empty \/ batch.fetch[item].klines = <<>>

\* C11: in the merge loop and in each detector loop a bad instrument is
\* skipped and the loop goes on: the instruments visited are always the
\* first idx of the list, in order, each bad one marked as skipped, and a
\* run that passed its validation ends with status 0 having visited all.
C11_BadItemSkipped ==
    batch.tool # "none" =>
        /\ Len(batch.visited) = batch.idx
        /\ \A i \in 0..(Len(batch.visited) - 1) :
            /\ At(batch.visited, i).item = At(batch.items, i)
            /\ BadItem(i) => At(batch.visited, i).msg # ""
        /\ batch.status # None =>
            \/ batch.status = Some(0) /\ batch.idx = Len(batch.items)
            \/ /\ batch.status = Some(2)
               /\ batch.tool \in Detectors
               /\ ~valid_args(batch.tool, batch.args)

\* C11's case: a merge run ended after its first instrument was skipped for
\* an empty response and rows were written for the second.
C11_Witness ==
    /\ batch.tool \in {"daily", "incremental"}
    /\ batch.status = Some(0)
    /\ Len(batch.visited) = 2
    /\ batch.visited[1].msg = "skip: empty response"
    /\ batch.visited[2].msg = ""
    /\ batch.visited[2].nrows > 0
    /\ batch.store[<<batch.items[2], ".csv">>]
            # batch.start[<<batch.items[2], ".csv">>]

\* An invalid window size of a detector run: window <= 0, MA window <= 1,
\* new-high window <= 1.
BadWindow ==
    \/ batch.tool = "ma120" /\ (batch.args.window <= 0 \/ batch.args.ma <= 1)
    \/ batch.tool = "new_high" /\ batch.args.window <= 1
    \/ batch.tool = "ma20_ma30" /\ batch.args.window <= 0

\* An entry of --ma-list that is an integer greater than 1.
GoodEntry(part) ==
    /\ isdigit(Chars(strip_text(part)))
    /\ int(Chars(strip_text(part))) > 1

\* The run ended with the error status, before any instrument was looked
\* at and with no result file.
FatalNoOutput ==
    /\ batch.status = Some(2)
    /\ batch.idx = 0
    /\ batch.visited = <<>>
    /\ batch.results = <<>>
    /\ batch.out = None

\* C12 as stated: a detector run with an invalid window size, or with an
\* entry in its moving-average window list that is not an integer greater
\* than 1, ends with the error status before any instrument is processed
\* and writes no result file.
C12_AnyBadEntryFatal ==
    (/\ batch.tool \in Detectors
     /\ batch.checked
     /\ \/ BadWindow
        \/ /\ batch.tool = "ma20_ma30"
           /\ \E i \in DOMAIN batch.args.ma_list :
                ~GoodEntry(batch.args.ma_list[i]))
        => FatalNoOutput

\* C12, amended: the run is fatal, with nothing processed and no result
\* file, exactly when a window size is invalid or the moving-average window
\* list has no entry that is an integer greater than 1; with one such
\* entry the run goes on and ends with a result file.
C12_NoGoodEntryFatal ==
    (batch.tool \in Detectors /\ batch.checked) =>
        LET invalid ==
                \/ BadWindow
                \/ /\ batch.tool = "ma20_ma30"
                   /\ \A i \in DOMAIN batch.args.ma_list :
                        ~GoodEntry(batch.args.ma_list[i])
        IN  /\ invalid => FatalNoOutput
            /\ ~invalid => batch.status # Some(2)
            /\ batch.out # None => (~invalid /\ batch.status = Some(0))

\* C12's case: a band-trend run over a directory holding a series was given
\* a window list with no usable entry and ended fatally.
C12_Witness ==
    /\ batch.tool = "ma20_ma30"
    /\ batch.args.window > 0
    /\ batch.args.ma_list = <<"x">>
    /\ \E i \in DOMAIN batch.items :
            /\ batch.items[i][2] = ".csv"
            /\ load_series(batch.dir[batch.items[i]]) # None
    /\ FatalNoOutput

\* C13: the outcome of a run is settled instrument by instrument, whatever
\* the order of processing. After a merge run the file of each instrument
\* of the list is what the loop body makes of that instrument's own file
\* and fetch result, the file of any other instrument is as it was, and
\* while the run goes on the files of the instruments not yet visited are
\* untouched; the set of results of a detector run is the set of the
\* results of its files, each taken alone.
C13_OrderIndependent ==
    /\ batch.tool \in {"daily", "incremental"} =>
        \A c \in Codes :
            LET before == batch.start[<<c, ".csv">>]
                after == merge_item(batch.tool, before, c, batch.args,
                                    batch.fetch[c]).file
                done == \E i \in 1..batch.idx : batch.items[i] = c
            IN  batch.store[<<c, ".csv">>] = IF done THEN after ELSE before
    /\ (batch.tool \in Detectors /\ batch.out # None) =>
        Range(batch.out[1])
            = {detect_item(batch.tool, batch.args, n, batch.dir[n]).result[1] :
                 n \in {e \in Range(batch.items) :
                          detect_item(batch.tool, batch.args, e,
                                      batch.dir[e]).result # None}}

\* C13's case: a merge run over two instruments, taken in the order second
\* then first, ended having written rows for both.
C13_Witness ==
    /\ batch.tool \in {"daily", "incremental"}
    /\ batch.status = Some(0)
    /\ batch.items = <<Code2, Code>>
    /\ \A c \in Codes : batch.store[<<c, ".csv">>] # batch.start[<<c, ".csv">>]
    /\ \A i \in 1..2 : batch.visited[i].nrows > 0

\* ============================================= writes of the merge drivers

\* The date cells of the data rows a per-stock file holds.
PersistedDates(f) ==
    IF f.lines = <<>> THEN {}
    ELSE UNION {{f.lines[i][j] : j \in {k \in DOMAIN f.lines[i] :
                                            k \in DOMAIN f.lines[1]
                                            /\ f.lines[1][k] = "date"}} :
                i \in 2..Len(f.lines)}

\* The pass that just ended had nothing to write: the response was empty,
\* it had no kline rows, or the run was not in overwrite mode and the date
\* of every fetched observation is already in the file.
NothingToDo ==
    /\ pc = "done"
    /\ \/ cur.data.empty
       \/ cur.data.klines = <<>>
       \/ /\ ~cur.overwrite
          /\ \A i \in DOMAIN cur.data.klines :
                cur.data.klines[i][1] \in PersistedDates(cur.prev)

\* C14, the frame part alone: a pass with nothing to write leaves the file
\* as it was, and creates none, in either mode.
C14_NoWrite ==
    NothingToDo => file = cur.prev

\* C14: a pass with nothing to write leaves the file as it was, creates
\* none, and reports the instrument as skipped.
C14_NothingToDoSkipped ==
    NothingToDo => (file = cur.prev /\ cur.msg # "")

\* The computed header as the claim words it: the identity fields, then the
\* price fields, then the metadata fields discovered in the payload.
ComputedAsStated(data) ==
    <<"code", "name", "market", "secid">> \o <<"date", "close">>
        \o (IF data.meta = <<>> THEN <<>> ELSE <<"meta_decimal">>)

\* The header line of the persisted file, if it has one.
PersistedHeader(f) ==
    IF f.exists /\ f.lines # <<>> /\ f.lines[1] # <<>>
    THEN Some(f.lines[1]) ELSE None

\* The pass wrote rows, every one of them in the shape of header h, and h
\* is the header line it wrote if it wrote one.
WroteUnder(h) ==
    /\ cur.header = Some(h)
    /\ \A i \in DOMAIN file.lines :
          (cur.overwrite \/ i > Len(cur.prev.lines)) =>
              Len(file.lines[i]) = Len(h)
    /\ (cur.nrows > 0 /\ (cur.overwrite \/ ~cur.prev.exists)) =>
          file.lines[1] = h

\* C15 as stated: every write of either driver, in every mode, uses the
\* persisted header if the file has one and the computed header otherwise.
C15_PersistedHeaderAlways ==
    Merged =>
        WroteUnder(IF PersistedHeader(cur.prev) # None
                   THEN PersistedHeader(cur.prev)[1]
                   ELSE ComputedAsStated(cur.data))

\* C15, amended: the same for every write that reads the persisted header
\* (kcb_daily in either mode, kcb_daily_incremental when not overwriting);
\* kcb_daily_incremental in overwrite mode uses the computed header whether
\* or not the file has one.
C15_PersistedHeaderWhenRead ==
    Merged =>
        WroteUnder(IF PersistedHeader(cur.prev) # None
                      /\ (cur.driver = "daily" \/ ~cur.overwrite)
                   THEN PersistedHeader(cur.prev)[1]
                   ELSE ComputedAsStated(cur.data))

\* C15's case: kcb_daily in overwrite mode rewrote a file whose header has
\* no metadata field with rows of a payload that has one, and kept the
\* persisted header.
C15_Witness ==
    /\ Merged
    /\ cur.driver = "daily"
    /\ cur.overwrite
    /\ cur.nrows > 0
    /\ PersistedHeader(cur.prev) # None
    /\ PersistedHeader(cur.prev)[1] # ComputedAsStated(cur.data)
    /\ file.lines[1] = PersistedHeader(cur.prev)[1]

\* ------------------------------------------- stores found before a run

\* A zero-length file: it exists and holds no line, not even a header.
EmptyFile == [exists |-> TRUE, lines |-> <<>>]

\* What data/daily/<code>.csv may be before the first run: absent,
\* zero-length, or a header line followed by a data row.
InitialFiles ==
    {AbsentFile, EmptyFile,
     [exists |-> TRUE, lines |-> <<StoreHeader, StoreLine(Code, DateA, "10")>>]}

\* Fetch results without payload metadata.
PlainFetch == {d \in FetchResults : d.meta = <<>>}

InitFiles ==
    /\ file \in InitialFiles
    /\ pc = "idle"
    /\ cur = NoPass
    /\ IdleSignal
    /\ batch = NoBatch

\* The store from any initial file, with the default request range.
NextFiles ==
    \/ BeginDaily(DefaultRange(DailyArgs))
    \/ BeginIncremental(DefaultRange(IncrementalArgs))
    \/ FinishDaily(PlainFetch)
    \/ FinishIncremental(PlainFetch)
    \/ Return

SpecFiles == InitFiles /\ [][NextFiles]_vars

\* The line write_csv_rows writes for a fetched kline under the header of
\* the pass: the instrument's code, the kline's date and its close.
LineOfKline(line, kline) ==
    /\ Len(line) = Len(cur.header[1])
    /\ \A j \in DOMAIN line :
          /\ cur.header[1][j] = "code" => line[j] = Code
          /\ cur.header[1][j] = "date" => line[j] = kline[1]
          /\ cur.header[1][j] = "close" => line[j] = kline[2]

\* The fetched klines whose date is not yet in the file, in fetch order.
UnseenKlines ==
    SelectSeq(cur.data.klines,
              LAMBDA k : k[1] \notin PersistedDates(cur.prev))

\* C16: a write in overwrite mode leaves exactly one header line followed
\* by every fetched row, in order, whatever the file held; a write in
\* non-overwrite mode leaves the old content followed by the fetched rows
\* whose date was not in the file, with a header line in front only when
\* the file did not exist.
C16_WriteMode ==
    /\ (Merged /\ cur.overwrite) =>
          /\ file.exists
          /\ Len(file.lines) = 1 + Len(cur.data.klines)
          /\ file.lines[1] = cur.header[1]
          /\ \A i \in DOMAIN cur.data.klines :
                LineOfKline(file.lines[i + 1], cur.data.klines[i])
    /\ (Merged /\ ~cur.overwrite /\ UnseenKlines # <<>>) =>
          LET lead == IF cur.prev.exists THEN cur.prev.lines
                      ELSE <<cur.header[1]>>
          IN  /\ file.exists
              /\ Len(file.lines) = Len(lead) + Len(UnseenKlines)
              /\ SubSeq(file.lines, 1, Len(lead)) = lead
              /\ \A i \in DOMAIN UnseenKlines :
                    LineOfKline(file.lines[Len(lead) + i], UnseenKlines[i])

\* C16's case: an overwrite pass replaced a file holding a row with two
\* fetched rows, one of them of a date the file already held.
C16_Witness ==
    /\ Merged
    /\ cur.overwrite
    /\ Len(cur.prev.lines) = 2
    /\ Len(cur.data.klines) = 2
    /\ \E i \in 1..2 : cur.data.klines[i][1] \in PersistedDates(cur.prev)
    /\ Len(file.lines) = 3

\* A header line: its first cell is the first identity field's name, not
\* an instrument's code.
IsHeaderLine(line) == line # <<>> /\ line[1] = "code"

\* C20: from an absent, zero-length or well-formed file, whatever merges
\* have run, a file that holds lines begins with a header line and has no
\* header line further down.
C20_SingleHeader ==
    (file.exists /\ file.lines # <<>>) =>
        /\ IsHeaderLine(file.lines[1])
        /\ \A i \in 2..Len(file.lines) : ~IsHeaderLine(file.lines[i])

\* ================================================ the series parser's runs

\* Most records in a file given to load_series.
MaxRecords == 3

\* Files a detector may be given: under the store's header, under the
\* remote's field codes, without a date column, or with a high and no
\* close; each record a date cell (good, padded with a blank, or not a
\* date) and a price cell (a number or not).
ParseFiles ==
    LET headers == {StoreHeader, <<"f51", "f53">>, <<"code", "close">>,
                    <<"date", "high">>}
        cells == {DateA, DateB, DatePadded, DateBad} \X {"10", "11", "x"}
        line(header, cell) ==
            [i \in DOMAIN header |->
                CASE header[i] \in {"date", "f51"} -> cell[1]
                  [] header[i] \in {"close", "f53", "high"} -> cell[2]
                  [] header[i] = "code" -> Code
                  [] OTHER -> ""]
    IN  {[exists |-> TRUE,
          lines |-> <<header>> \o [i \in DOMAIN records |->
                                      line(header, records[i])]] :
            header \in headers, records \in SeqUpTo(cells, MaxRecords)}

\* load_series(path) of kcb_signal_ma120 and kcb_signal_ma20_ma30.
LoadSeries ==
    /\ signal = <<>>
    /\ signal' = [call |-> "load_series", price_field |-> "close",
                  result |-> load_series(file)]
    /\ UNCHANGED <<storeVars, series, cfg, ma, batch>>

\* load_series(path, price_field) of kcb_signal_new_high_20d.
LoadSeriesPrice ==
    /\ signal = <<>>
    /\ \E price_field \in {"high", "close"} :
          signal' = [call |-> "load_series", price_field |-> price_field,
                     result |-> load_series_price(file, price_field)]
    /\ UNCHANGED <<storeVars, series, cfg, ma, batch>>

InitParse ==
    /\ file \in ParseFiles
    /\ pc = "idle"
    /\ cur = NoPass
    /\ IdleSignal
    /\ batch = NoBatch

NextParse == LoadSeries \/ LoadSeriesPrice

SpecParse == InitParse /\ [][NextParse]_vars

\* The number a date text parses to: its eight digits once blanks, "-" and
\* "/" are taken away; None when that does not leave eight digits.
ParsedDay(text) ==
    CASE text = DateA      -> Some(20240102)
      [] text = DateB      -> Some(20240103)
      [] text = DatePadded -> Some(20240103)
      [] OTHER             -> None

\* The number a price text parses to; None when it is no number.
ParsedPrice(text) ==
    CASE text = "10" -> Some(10)
      [] text = "11" -> Some(11)
      [] OTHER       -> None

\* The column a field is read from: the one of that name, else the one of
\* its legacy name; 0 when the header has neither.
ColumnFor(header, name, legacy) ==
    IF \E i \in DOMAIN header : header[i] = name
    THEN CHOOSE i \in DOMAIN header : header[i] = name
    ELSE IF \E i \in DOMAIN header : header[i] = legacy
    THEN CHOOSE i \in DOMAIN header : header[i] = legacy
    ELSE 0

\* C19: load_series keeps exactly the records whose date parses to an
\* 8-digit number and whose price parses, as (date number, date text
\* without blanks, price); each record kept stands after every record of
\* an earlier date and after the records of the same date that came before
\* it in the file; there is no series when the date or the price column
\* cannot be resolved under either name, or when no record is kept.
C19_SeriesParser ==
    (signal # <<>> /\ signal.call = "load_series") =>
        LET header == file.lines[1]
            records == Tail(file.lines)
            dcol == ColumnFor(header, "date", "f51")
            pcol == IF signal.price_field = "high"
                    THEN ColumnFor(header, "high", "f54")
                    ELSE ColumnFor(header, "close", "f53")
            kept == {k \in DOMAIN records :
                        /\ ParsedDay(records[k][dcol]) # None
                        /\ ParsedPrice(records[k][pcol]) # None}
            key(k) == ParsedDay(records[k][dcol])[1]
            place(k) == Cardinality({m \in kept : key(m) < key(k)})
                        + Cardinality({m \in kept : key(m) = key(k) /\ m <= k})
        IN  IF dcol = 0 \/ pcol = 0 \/ kept = {}
            THEN signal.result = None
            ELSE /\ signal.result # None
                 /\ Len(signal.result[1].rows) = Cardinality(kept)
                 /\ \A k \in kept :
                        LET row == signal.result[1].rows[place(k)]
                        IN  /\ row[1] = key(k)
                            /\ ParsedDay(row[2]) = Some(key(k))
                            /\ row[2] \in {DateA, DateB}
                            /\ row[3] = ParsedPrice(records[k][pcol])[1]

\* C19's case: of three records the first has no date, the other two have
\* the same date and different prices, and the series keeps those two in
\* file order.
C19_Witness ==
    /\ signal # <<>>
    /\ signal.call = "load_series"
    /\ Len(file.lines) = 4
    /\ file.lines[1] = <<"f51", "f53">>
    /\ file.lines[2][1] = DateBad
    /\ file.lines[3] = <<DatePadded, "11">>
    /\ file.lines[4] = <<DateB, "10">>
    /\ signal.result # None
    /\ signal.result[1].rows = <<<<20240103, DateB, 11>>, <<20240103, DateB, 10>>>>

====
